---- MODULE Spec2Model ----
(***************************************************************************)
(* Model of src/abc_example.py: the Config dataclass, the GuardedConfig    *)
(* property wrapper (validating setters, delegating getters, __repr__),    *)
(* the JSON and YAML import_config loaders, and a caller that drives them  *)
(* the way main() does (load, write directly, wrap, set through the        *)
(* wrapper inside try/except AssertionError, print).                       *)
(*                                                                         *)
(* Python strings are sequences of one-character strings, so that          *)
(* re.match and the f-string rendering are computed character by           *)
(* character.  The interpreter is the default one (__debug__ is true, so   *)
(* assert statements are executed).                                        *)
(***************************************************************************)
EXTENDS Integers, Sequences, FiniteSets, TLC

(***************************************************************************)
(* Bounds of the model.                                                    *)
(***************************************************************************)
\* longest string enumerated exhaustively over Alphabet
MaxStrLen == 8
\* addresses of the object heap
NumAddrs == 2

(***************************************************************************)
(* Python values.  Every value is a record [t, s, n]: t the type name,     *)
(* s the characters of a str, n the number of an int, bool or float, or    *)
(* the address of an object reference.                                     *)
(***************************************************************************)
PyNone == [t |-> "NoneType", s |-> <<>>, n |-> 0]
PyStr(chars) == [t |-> "str", s |-> chars, n |-> 0]
PyInt(i) == [t |-> "int", s |-> <<>>, n |-> i]
\* bool is a subclass of int: True is 1 and False is 0
PyBool(b) == [t |-> "bool", s |-> <<>>, n |-> IF b THEN 1 ELSE 0]
\* the float i.0
PyFloat(i) == [t |-> "float", s |-> <<>>, n |-> i]
\* a reference to the Config object at address a
Ref(a) == [t |-> "Config", s |-> <<>>, n |-> a]

\* isinstance(value, str)
IsInstanceStr(value) == value.t = "str"
\* isinstance(value, int), which bool satisfies because bool subclasses int
IsInstanceInt(value) == value.t \in {"int", "bool"}

(***************************************************************************)
(* Exceptions: the class and the message.  The interpolated value of the   *)
(* two assert messages is the argument of the call and is left out.        *)
(***************************************************************************)
NoExc == [cls |-> "None", msg |-> ""]
Exc(cls, msg) == [cls |-> cls, msg |-> msg]
\* assert isinstance(...) has no message
TypeAssertion == Exc("AssertionError", "")
FormatAssertion == Exc("AssertionError", "ip does not have correct format")
RangeAssertion == Exc("AssertionError", "port is not in valid range")
\* attribute access on None
NoneAttributeError == Exc("AttributeError", "NoneType object has no attribute")

(***************************************************************************)
(* GuardedConfig._ipv4_regex and re.match.                                 *)
(***************************************************************************)
Digits == <<"0", "1", "2", "3", "4", "5", "6", "7", "8", "9">>
IsDigit(c) == \E i \in 1..10 : Digits[i] = c

\* [0-9]{3}: a quantifier that demands exactly three digits
DigitGroupExactlyThree(s, P) ==
    {q \in 0..Len(s) : \E p \in P : q - p = 3 /\ \A i \in (p+1)..q : IsDigit(s[i])}
\* [0-9]{1,3}: the positions where a digit group that starts at a position of
\* P can end (every length 1..3 is tried, as the backtracking matcher does)
DigitGroup(s, P) ==
    {q \in 0..Len(s) : \E p \in P : q - p \in 1..3 /\ \A i \in (p+1)..q : IsDigit(s[i])}
\* \. : a literal dot
Dot(s, P) == {p + 1 : p \in {x \in P : x + 1 <= Len(s) /\ s[x+1] = "."}}

\* the value of an all-digit slice s[from..to]
RECURSIVE DigitsValue(_, _, _)
DigitsValue(s, from, to) ==
    IF to < from THEN 0
    ELSE 10 * DigitsValue(s, from, to - 1)
         + (CHOOSE d \in 0..9 : Digits[d+1] = s[to])

\* a matcher that also bounds every group to 0..255
RECURSIVE OctetGroups(_, _, _)
OctetGroups(s, p, k) ==
    \E q \in DigitGroup(s, {p}) :
        /\ DigitsValue(s, p + 1, q) <= 255
        /\ IF k = 1 THEN TRUE
           ELSE \E r \in Dot(s, {q}) : OctetGroups(s, r, k - 1)
Ipv4MatchOctets(s) == OctetGroups(s, 0, 4)
\* re.match(self._ipv4_regex, value): the pattern is anchored at the start of
\* the string only; it matches when some prefix of the string is consumed
Ipv4Match(s) ==
    DigitGroup(s, Dot(s, DigitGroup(s, Dot(s, DigitGroup(s,
                   Dot(s, DigitGroup(s, {0}))))))) # {}

_port_min == 0
_port_max == 65535
\* value in range(lo, hi) with the upper end left out one too early
InRangeExclusive(value, lo, hi) == lo <= value.n /\ value.n < hi - 1
\* value in range(lo, hi)
InRange(value, lo, hi) == lo <= value.n /\ value.n < hi

(***************************************************************************)
(* The object heap: Config objects by address.                             *)
(***************************************************************************)
Addrs == 1..NumAddrs
Free == [live |-> FALSE, ip |-> PyNone, port |-> PyNone]
\* Config(ip, port): the dataclass' generated __init__
Config(ip, port) == [live |-> TRUE, ip |-> ip, port |-> port]
\* the lowest free address
FreeAddr(h) == CHOOSE a \in Addrs : ~h[a].live /\ \A b \in Addrs : b < a => h[b].live
\* setattr(obj, name, value)
SetAttr(h, ref, name, value) ==
    IF name = "ip" THEN [h EXCEPT ![ref.n].ip = value]
    ELSE [h EXCEPT ![ref.n].port = value]

VARIABLES heap, config, guarded_config, call, raised, ret, handled
vars == <<heap, config, guarded_config, call, raised, ret, handled>>


(***************************************************************************)
(* str() and repr() of the values, and the two renderings.                 *)
(***************************************************************************)
RECURSIVE IntStr(_)
IntStr(i) ==
    IF i < 0 THEN <<"-">> \o IntStr(-i)
    ELSE IF i < 10 THEN <<Digits[i+1]>>
    ELSE IntStr(i \div 10) \o <<Digits[(i % 10) + 1]>>

\* str(value), what an f-string field {value} renders
StrOf(value) ==
    CASE value.t = "str" -> value.s
      [] value.t = "int" -> IntStr(value.n)
      [] value.t = "bool" -> IF value.n = 1 THEN <<"T", "r", "u", "e">>
                             ELSE <<"F", "a", "l", "s", "e">>
      [] value.t = "float" -> IntStr(value.n) \o <<".", "0">>
      [] OTHER -> <<"N", "o", "n", "e">>
\* repr(value); the strings of the model hold no quote, backslash or
\* control character, so repr of a str is the str between single quotes
ReprOf(value) ==
    IF value.t = "str" THEN <<"'">> \o value.s \o <<"'">> ELSE StrOf(value)

ConfigName == <<"C", "o", "n", "f", "i", "g">>
ConfigWrapperName == <<"C", "o", "n", "f", "i", "g", "W", "r", "a", "p", "p", "e", "r">>
GuardedConfigName == <<"G", "u", "a", "r", "d", "e", "d", "C", "o", "n", "f", "i", "g">>

\* the __repr__ the dataclass decorator generates for Config:
\* Config(ip=<repr(ip)>, port=<repr(port)>)
Config__repr__(h, ref) ==
    ConfigName \o <<"(", "i", "p", "=">> \o ReprOf(h[ref.n].ip)
               \o <<",", " ", "p", "o", "r", "t", "=">> \o ReprOf(h[ref.n].port)
               \o <<")">>

\* GuardedConfig.ip and GuardedConfig.port, the getters
GuardedConfig_ip(h, self) == h[self._config.n].ip
GuardedConfig_port(h, self) == h[self._config.n].port

\* a __repr__ that names the class it is written in
ConfigWrapper__repr__Static(h, self) ==
    ConfigWrapperName \o <<"(", "i", "p", "=", "'">> \o StrOf(GuardedConfig_ip(h, self))
        \o <<"'", ",", " ", "p", "o", "r", "t", "=">> \o StrOf(GuardedConfig_port(h, self))
        \o <<")">>
\* ConfigWrapper.__repr__ on a GuardedConfig: self.__class__.__name__ is
\* GuardedConfig, and the two fields are read through the properties
ConfigWrapper__repr__(h, self) ==
    GuardedConfigName \o <<"(", "i", "p", "=", "'">> \o StrOf(GuardedConfig_ip(h, self))
        \o <<"'", ",", " ", "p", "o", "r", "t", "=">> \o StrOf(GuardedConfig_port(h, self))
        \o <<")">>

(***************************************************************************)
(* GuardedConfig: the constructor and the two setters.  A setter yields    *)
(* the heap it leaves and the exception it raises.                         *)
(***************************************************************************)
NoWrapper == [t |-> "NoneType", _config |-> PyNone]
\* a constructor that wraps a copy of the object it is given
GuardedConfig__init__Copy(h, cfg) ==
    [heap |-> [h EXCEPT ![FreeAddr(h)] = h[cfg.n]],
     self |-> [t |-> "GuardedConfig", _config |-> Ref(FreeAddr(h))]]
\* GuardedConfig.__init__: self._config = config
GuardedConfig__init__(h, cfg) ==
    [heap |-> h, self |-> [t |-> "GuardedConfig", _config |-> cfg]]

\* GuardedConfig.ip, the setter
GuardedConfig_ip_setter(h, self, value) ==
    IF ~IsInstanceStr(value) THEN [heap |-> h, raised |-> TypeAssertion]
    ELSE IF ~Ipv4Match(value.s) THEN [heap |-> h, raised |-> FormatAssertion]
    ELSE [heap |-> SetAttr(h, self._config, "ip", value), raised |-> NoExc]

\* GuardedConfig.port, the setter
GuardedConfig_port_setter(h, self, value) ==
    IF ~IsInstanceInt(value) THEN [heap |-> h, raised |-> TypeAssertion]
    ELSE IF ~InRange(value, _port_min, _port_max + 1)
         THEN [heap |-> h, raised |-> RangeAssertion]
    ELSE [heap |-> SetAttr(h, self._config, "port", value), raised |-> NoExc]

(***************************************************************************)
(* Files and the loaders.  A file is what open(path) finds: its status     *)
(* and, when it can be read, the document its text deserializes to.        *)
(* json.loads and yaml.load are library code: a document is malformed      *)
(* text, a top-level value that is no mapping, or a mapping.               *)
(***************************************************************************)
NoDoc == [kind |-> "none", keys |-> {}, ip |-> PyNone, port |-> PyNone]
NoFile == [status |-> "none", doc |-> NoDoc]
\* config.__dict__.keys(), in the order the dataclass declares the fields
ConfigFields == <<"ip", "port">>
ConfigKeys == {ConfigFields[i] : i \in 1..Len(ConfigFields)}

\* except OSError: only the failures of open() are caught
ExceptOSError(exc) == exc.cls \in {"FileNotFoundError", "PermissionError"}
\* except Exception: every class raised in the body derives from Exception
ExceptException(exc) ==
    exc.cls \in {"FileNotFoundError", "PermissionError", "JSONDecodeError",
                 "YAMLError", "TypeError", "AttributeError", "KeyError"}

\* json_.keys() >= config.__dict__.keys(): extra keys are let through
KeysMismatchSuperset(docKeys, fieldKeys) == ~(fieldKeys \subseteq docKeys)
\* json_.keys() != config.__dict__.keys()
KeysMismatch(docKeys, fieldKeys) == docKeys # fieldKeys

\* json_[key]
Lookup(doc, key) == IF key = "ip" THEN doc.ip ELSE doc.port

\* for key in config.__dict__.keys(): setattr(config, key, json_[key]),
\* from field number i on; yields the object and the exception raised
RECURSIVE CopyFields(_, _, _)
CopyFields(obj, doc, i) ==
    IF i > Len(ConfigFields) THEN [obj |-> obj, exc |-> NoExc]
    ELSE IF ConfigFields[i] \notin doc.keys
         THEN [obj |-> obj, exc |-> Exc("KeyError", ConfigFields[i])]
    ELSE CopyFields(IF ConfigFields[i] = "ip"
                    THEN [obj EXCEPT !.ip = Lookup(doc, "ip")]
                    ELSE [obj EXCEPT !.port = Lookup(doc, "port")],
                    doc, i + 1)

\* the body of the try statement, after the text was deserialized or
\* deserializing raised loadExc.  Yields [ret, obj, exc]: ret says whether
\* the body ran to `return config` ("config"), left through `return None`
\* ("none") or raised ("raise")
TryBody(file, loadExc) ==
    LET placeholder == Config(PyNone, PyNone)
        copied == CopyFields(placeholder, file.doc, 1)
    IN  CASE file.status = "missing" ->
               [ret |-> "raise", obj |-> Free, exc |-> Exc("FileNotFoundError", "")]
          [] file.status = "unreadable" ->
               [ret |-> "raise", obj |-> Free, exc |-> Exc("PermissionError", "")]
          [] loadExc # NoExc ->
               [ret |-> "raise", obj |-> placeholder, exc |-> loadExc]
          [] file.doc.kind # "dict" ->
               [ret |-> "raise", obj |-> placeholder,
                exc |-> Exc("AttributeError", "object has no attribute keys")]
          [] KeysMismatch(file.doc.keys, ConfigKeys) ->
               [ret |-> "none", obj |-> placeholder, exc |-> NoExc]
          [] copied.exc # NoExc ->
               [ret |-> "raise", obj |-> copied.obj, exc |-> copied.exc]
          [] OTHER ->
               [ret |-> "config", obj |-> copied.obj, exc |-> NoExc]

\* try: ... except Exception as e: print(...); return None -- return config.
\* Yields the heap, the value returned and the exception that escapes.
ImportConfig(h, file, loadExc) ==
    LET body == TryBody(file, loadExc)
    IN  CASE body.ret = "config" ->
               [heap |-> [h EXCEPT ![FreeAddr(h)] = body.obj],
                ret |-> Ref(FreeAddr(h)), raised |-> NoExc]
          [] body.ret = "none" -> [heap |-> h, ret |-> PyNone, raised |-> NoExc]
          [] body.ret = "raise" /\ ExceptException(body.exc) ->
               [heap |-> h, ret |-> PyNone, raised |-> NoExc]
          [] OTHER -> [heap |-> h, ret |-> PyNone, raised |-> body.exc]

\* json.loads(f.read())
JsonLoads(file) ==
    IF file.doc.kind = "malformed" THEN Exc("JSONDecodeError", "") ELSE NoExc
\* yaml.load(f.read()), called without a Loader: PyYAML 6 raises TypeError
\* for the missing argument, PyYAML 5 warns and parses
YamlLoad(file, loaderRequired) ==
    IF loaderRequired THEN Exc("TypeError", "load() missing Loader")
    ELSE IF file.doc.kind = "malformed" THEN Exc("YAMLError", "") ELSE NoExc

\* JsonConfigParser.import_config(path), path naming `file`
JsonConfigParser_import_config(h, file) == ImportConfig(h, file, JsonLoads(file))
\* YamlConfigParser.import_config(path), path naming `file`
YamlConfigParser_import_config(h, file, loaderRequired) ==
    ImportConfig(h, file, YamlLoad(file, loaderRequired))


(***************************************************************************)
(* The inputs of the calls.                                                *)
(***************************************************************************)
Alphabet == {"1", "."}
\* every string over Alphabet of at most MaxStrLen characters
EnumeratedStrings == UNION {[1..k -> Alphabet] : k \in 0..MaxStrLen}
\* the strings of main() and of the documented examples, and strings with
\* a character before or after a dotted quad and with a group of four digits
ExampleStrings ==
    { <<"l", "o", "c", "a", "l", "h", "o", "s", "t">>,
      <<"1", ".", "2", ".", "3">>,
      <<"1", "2", "7", ".", "0", ".", "0", ".", "1">>,
      <<"1", "2", "3", ".", "1", "2", "3", ".", "1", "2", "3", ".", "1", "2", "3">>,
      <<"9", "9", "9", ".", "9", "9", "9", ".", "9", "9", "9", ".", "9", "9", "9">>,
      <<"1", ".", "2", ".", "3", ".", "4">>,
      <<"a", "1", ".", "1", ".", "1", ".", "1">>,
      <<"1", ".", "1", ".", "1", ".", "1", "a">>,
      <<"1", "1", "1", "1", ".", "1", ".", "1", ".", "1">> }
Strings == EnumeratedStrings \cup ExampleStrings

\* values assigned to ip through the wrapper
IpInputs ==
    {PyStr(s) : s \in Strings}
        \cup {PyNone, PyInt(80), PyFloat(80), PyBool(TRUE)}
\* values assigned to port through the wrapper
PortInputs ==
    {PyInt(i) : i \in {_port_min - 1, _port_min, 6321, _port_max, _port_max + 1}}
        \cup {PyNone, PyStr(<<"8", "0">>), PyFloat(80), PyBool(TRUE), PyBool(FALSE)}
\* values written to the Config directly, which nothing validates
DirectIpInputs ==
    {PyStr(<<"1", "2", "3", ".", "1", "2", "3", ".", "1", "2", "3", ".", "1", "2", "3">>),
     PyStr(<<"l", "o", "c", "a", "l", "h", "o", "s", "t">>)}
DirectPortInputs == {PyInt(_port_min - 1)}

\* the documents a file can hold
DocIps == {PyStr(<<"1", ".", "2", ".", "3", ".", "4">>), PyNone}
DocPorts == {PyInt(80), PyStr(<<"8", "0">>)}
Docs ==
    {[kind |-> k, keys |-> {}, ip |-> PyNone, port |-> PyNone] :
        k \in {"malformed", "list", "str"}}
    \cup {[kind |-> "dict", keys |-> ks, ip |-> i, port |-> p] :
            ks \in SUBSET {"ip", "port", "extra"},
            i \in DocIps \cup {PyNone}, p \in DocPorts \cup {PyNone}}
\* a key the mapping lacks has no value: one record per mapping
WellFormed(d) ==
    /\ ("ip" \notin d.keys => d.ip = PyNone)
    /\ ("port" \notin d.keys => d.port = PyNone)
    /\ ("port" \in d.keys => d.port \in DocPorts)
Files ==
    {[status |-> s, doc |-> NoDoc] : s \in {"missing", "unreadable"}}
    \cup {[status |-> "ok", doc |-> d] : d \in {x \in Docs : WellFormed(x)}}

(***************************************************************************)
(* The caller.  call is the statement the caller has just executed (Idle   *)
(* between statements), raised the exception that statement raised, ret    *)
(* the value it returned; handled says that the statement before was       *)
(* left through the caller's `except AssertionError: pass`.                *)
(***************************************************************************)
Idle == [op |-> "idle", arg |-> PyNone, file |-> NoFile]
Call(op, arg) == [op |-> op, arg |-> arg, file |-> NoFile]

Init ==
    /\ heap = [a \in Addrs |-> Free]
    /\ config = PyNone
    /\ guarded_config = NoWrapper
    /\ call = Idle
    /\ raised = NoExc
    /\ ret = PyNone
    /\ handled = FALSE

\* config = JsonConfigParser().import_config(path)
JsonImport(file) ==
    LET r == JsonConfigParser_import_config(heap, file)
    IN  /\ call = Idle
        /\ config = PyNone
        /\ call' = [op |-> "json_import_config", arg |-> PyNone, file |-> file]
        /\ heap' = r.heap
        /\ raised' = r.raised
        /\ ret' = r.ret
        /\ config' = IF r.raised = NoExc THEN r.ret ELSE config
        /\ UNCHANGED <<guarded_config, handled>>

\* config = YamlConfigParser().import_config(path)
YamlImport(file, loaderRequired) ==
    LET r == YamlConfigParser_import_config(heap, file, loaderRequired)
    IN  /\ call = Idle
        /\ config = PyNone
        /\ call' = [op |-> "yaml_import_config", arg |-> PyNone, file |-> file]
        /\ heap' = r.heap
        /\ raised' = r.raised
        /\ ret' = r.ret
        /\ config' = IF r.raised = NoExc THEN r.ret ELSE config
        /\ UNCHANGED <<guarded_config, handled>>

\* config.ip = value / config.port = value, on whatever import_config returned
DirectSet(name, value) ==
    /\ call = Idle
    /\ call' = Call(IF name = "ip" THEN "config_set_ip" ELSE "config_set_port", value)
    /\ IF config = PyNone
       THEN heap' = heap /\ raised' = NoneAttributeError
       ELSE heap' = SetAttr(heap, config, name, value) /\ raised' = NoExc
    /\ ret' = PyNone
    /\ UNCHANGED <<config, guarded_config, handled>>

\* print(config)
ConfigRepr ==
    /\ call = Idle
    /\ config # PyNone
    /\ call' = Call("config_repr", PyNone)
    /\ ret' = PyStr(Config__repr__(heap, config))
    /\ raised' = NoExc
    /\ UNCHANGED <<heap, config, guarded_config, handled>>

\* guarded_config = GuardedConfig(config), config being a Config as the
\* constructor's annotation demands
Wrap ==
    LET r == GuardedConfig__init__(heap, config)
    IN  /\ call = Idle
        /\ config # PyNone
        /\ guarded_config = NoWrapper
        /\ call' = Call("GuardedConfig", config)
        /\ heap' = r.heap
        /\ guarded_config' = r.self
        /\ raised' = NoExc
        /\ ret' = PyNone
        /\ UNCHANGED <<config, handled>>

\* guarded_config.ip = value
GuardedSetIp(value) ==
    LET r == GuardedConfig_ip_setter(heap, guarded_config, value)
    IN  /\ call = Idle
        /\ guarded_config # NoWrapper
        /\ call' = Call("guarded_set_ip", value)
        /\ heap' = r.heap
        /\ raised' = r.raised
        /\ ret' = PyNone
        /\ UNCHANGED <<config, guarded_config, handled>>

\* guarded_config.port = value
GuardedSetPort(value) ==
    LET r == GuardedConfig_port_setter(heap, guarded_config, value)
    IN  /\ call = Idle
        /\ guarded_config # NoWrapper
        /\ call' = Call("guarded_set_port", value)
        /\ heap' = r.heap
        /\ raised' = r.raised
        /\ ret' = PyNone
        /\ UNCHANGED <<config, guarded_config, handled>>

\* guarded_config.ip
GuardedGetIp ==
    /\ call = Idle
    /\ guarded_config # NoWrapper
    /\ call' = Call("guarded_get_ip", PyNone)
    /\ ret' = GuardedConfig_ip(heap, guarded_config)
    /\ raised' = NoExc
    /\ UNCHANGED <<heap, config, guarded_config, handled>>

\* guarded_config.port
GuardedGetPort ==
    /\ call = Idle
    /\ guarded_config # NoWrapper
    /\ call' = Call("guarded_get_port", PyNone)
    /\ ret' = GuardedConfig_port(heap, guarded_config)
    /\ raised' = NoExc
    /\ UNCHANGED <<heap, config, guarded_config, handled>>

\* print(guarded_config)
GuardedRepr ==
    /\ call = Idle
    /\ guarded_config # NoWrapper
    /\ call' = Call("guarded_repr", PyNone)
    /\ ret' = PyStr(ConfigWrapper__repr__(heap, guarded_config))
    /\ raised' = NoExc
    /\ UNCHANGED <<heap, config, guarded_config, handled>>

\* the statement is over: it returned, or it raised AssertionError and the
\* caller's `except AssertionError: pass` took it.  Any other exception is
\* not caught and ends the program.
Proceed ==
    /\ call # Idle
    /\ raised.cls \in {"None", "AssertionError"}
    /\ call' = Idle
    /\ handled' = (raised.cls = "AssertionError")
    /\ raised' = NoExc
    /\ ret' = PyNone
    /\ UNCHANGED <<heap, config, guarded_config>>

Next ==
    \/ \E file \in Files : JsonImport(file)
    \/ \E file \in Files, loaderRequired \in BOOLEAN : YamlImport(file, loaderRequired)
    \/ \E value \in DirectIpInputs : DirectSet("ip", value)
    \/ \E value \in DirectPortInputs : DirectSet("port", value)
    \/ ConfigRepr
    \/ Wrap
    \/ \E value \in IpInputs : GuardedSetIp(value)
    \/ \E value \in PortInputs : GuardedSetPort(value)
    \/ GuardedGetIp
    \/ GuardedGetPort
    \/ GuardedRepr
    \/ Proceed

Spec == Init /\ [][Next]_vars


(***************************************************************************)
(* The properties.                                                         *)
(***************************************************************************)
\* the Config the wrapper was built around
Wrapped == heap[guarded_config._config.n]

\* s is, as a whole, four groups of one to three decimal digits separated
\* by dots: a, b and c are the places of the three dots
IsDottedQuad(s) ==
    \E a \in 2..4 : \E b \in (a+2)..(a+4) : \E c \in (b+2)..(b+4) :
        /\ Len(s) - c \in 1..3
        /\ \A i \in 1..Len(s) :
              IF i \in {a, b, c} THEN s[i] = "." ELSE IsDigit(s[i])

IsImport == call.op \in {"json_import_config", "yaml_import_config"}

\* C1: every assignment through the wrapper that succeeded leaves the
\* wrapped Config with an ip that is a str and as a whole a dotted quad,
\* and with a port that is an int in [0, 65535].
C1_SuccessfulSetSatisfiesPredicate ==
    /\ (call.op = "guarded_set_ip" /\ raised = NoExc)
          => (Wrapped.ip.t = "str" /\ IsDottedQuad(Wrapped.ip.s))
    /\ (call.op = "guarded_set_port" /\ raised = NoExc)
          => (Wrapped.port.t = "int" /\ Wrapped.port.n >= 0 /\ Wrapped.port.n <= 65535)

\* C2: assigning a string that is not as a whole a dotted quad to ip
\* through the wrapper raises the format failure and leaves the heap, and
\* so the wrapped Config's ip, as it was before the call.
C2_NonQuadRejectedAndUnchanged ==
    [][(call'.op = "guarded_set_ip" /\ call'.arg.t = "str"
           /\ ~IsDottedQuad(call'.arg.s))
        => (raised' = FormatAssertion /\ heap' = heap)]_vars

\* C3: assigning a dotted quad of 1-3 digit groups, whatever the groups'
\* numeric values, succeeds, and the wrapper's ip getter then returns
\* exactly that string.
C3_QuadAcceptedAndReadBack ==
    (call.op = "guarded_set_ip" /\ call.arg.t = "str" /\ IsDottedQuad(call.arg.s))
        => (raised = NoExc /\ GuardedConfig_ip(heap, guarded_config) = call.arg)
C3_Witness ==
    /\ call = Call("guarded_set_ip",
                   PyStr(<<"9", "9", "9", ".", "9", "9", "9", ".",
                           "9", "9", "9", ".", "9", "9", "9">>))
    /\ raised = NoExc
    /\ Wrapped.ip = call.arg

\* C4: assigning an int to port succeeds exactly when it lies in
\* [0, 65535], and then it is stored; outside the range the assignment
\* raises the range failure.
C4_PortAcceptedIffInRange ==
    (call.op = "guarded_set_port" /\ call.arg.t = "int")
        => IF call.arg.n >= 0 /\ call.arg.n <= 65535
           THEN raised = NoExc /\ Wrapped.port = call.arg
           ELSE raised = RangeAssertion
C4_Witness ==
    /\ call = Call("guarded_set_port", PyInt(65535))
    /\ raised = NoExc
    /\ Wrapped.port = PyInt(65535)

\* C5: assigning a value that is not a str to ip, or a value that is not
\* an int (a str, a float, None or a bool) to port, raises the type failure,
\* which differs from the format and the range failure.
C5_WrongTypeRaisesTypeFailure ==
    /\ (call.op = "guarded_set_ip" /\ call.arg.t # "str") => raised = TypeAssertion
    /\ (call.op = "guarded_set_port" /\ call.arg.t # "int") => raised = TypeAssertion
    /\ TypeAssertion \notin {FormatAssertion, RangeAssertion}

\* C6: no exception escapes import_config: whatever the file, the call
\* returns None or a reference to a live Config.
C6_ImportNeverRaises ==
    IsImport => /\ raised = NoExc
                /\ \/ ret = PyNone
                   \/ ret.t = "Config" /\ heap[ret.n].live
C6_Witness ==
    /\ call.op = "json_import_config"
    /\ call.file.status = "ok"
    /\ call.file.doc.kind = "malformed"
    /\ raised = NoExc
    /\ ret = PyNone

\* C7: import_config returns failure unless the deserialized mapping's key
\* set is exactly {ip, port}, and a Config it returns has both its ip and
\* its port copied from the mapping.
C7_ExactKeysOrFailure ==
    IsImport =>
        /\ (call.file.status # "ok" \/ call.file.doc.kind # "dict"
               \/ call.file.doc.keys # {"ip", "port"}) => ret = PyNone
        /\ ret # PyNone =>
              /\ heap[ret.n].ip = call.file.doc.ip
              /\ heap[ret.n].port = call.file.doc.port
              /\ config = ret
C7_Witness ==
    /\ IsImport
    /\ call.file.doc.kind = "dict"
    /\ call.file.doc.keys = {"ip", "port", "extra"}
    /\ ret = PyNone

\* C8: what the wrapper's getters return is what the Config the caller
\* wrapped holds, in every state and for each read through the wrapper.
C8_WrapperReadsAreDirectReads ==
    /\ guarded_config # NoWrapper =>
          /\ GuardedConfig_ip(heap, guarded_config) = heap[config.n].ip
          /\ GuardedConfig_port(heap, guarded_config) = heap[config.n].port
    /\ call.op = "guarded_get_ip" => ret = heap[config.n].ip
    /\ call.op = "guarded_get_port" => ret = heap[config.n].port
C8_Witness ==
    /\ call.op = "guarded_get_ip"
    /\ ret = PyStr(<<"l", "o", "c", "a", "l", "h", "o", "s", "t">>)
    /\ heap[config.n].port = PyInt(65535)

\* C9: right after a failed assignment through the wrapper that the caller
\* handled, assigning a valid value (a dotted quad to ip, an int of
\* [0, 65535] to port) succeeds and is stored.
C9_ValidSetAfterFailureSucceeds ==
    handled =>
        /\ (call.op = "guarded_set_ip" /\ call.arg.t = "str"
               /\ IsDottedQuad(call.arg.s))
              => (raised = NoExc /\ Wrapped.ip = call.arg)
        /\ (call.op = "guarded_set_port" /\ call.arg.t = "int"
               /\ call.arg.n >= 0 /\ call.arg.n <= 65535)
              => (raised = NoExc /\ Wrapped.port = call.arg)
C9_Witness ==
    /\ handled
    /\ call = Call("guarded_set_ip",
                   PyStr(<<"1", "2", "7", ".", "0", ".", "0", ".", "1">>))
    /\ raised = NoExc
    /\ Wrapped.ip = call.arg

====
